---- MODULE Spec2Model ----
(***************************************************************************)
(* The SHS (System Hallucination Scale) calculator: the SHSCalculator      *)
(* class of src/web-components/shs-calculator.js, one record of state per  *)
(* constructed instance, together with the part of the document (radio     *)
(* groups, result texts, inline display styles, gauge) each instance owns. *)
(*                                                                         *)
(* Numbers.  The code computes with IEEE doubles.  Every number is held    *)
(* here as an integer count of thousandths (Scale = 1000), so 0.25 is 250  *)
(* and the band edge -0.818 is -818.  Answers are integers in -2..2, so    *)
(* (a - b) / 4 is a multiple of 0.25 and exact in binary; a sum of five    *)
(* such values is exact; the final division by 5 is correctly rounded and  *)
(* therefore yields the same double as the decimal literal k/20, so that   *)
(* every comparison the code makes against 0.1, 0.5 and the band edges has *)
(* the outcome of the comparison of the exact values.                      *)
(***************************************************************************)
EXTENDS Integers, Sequences, FiniteSets, TLC

Scale == 10 * 10 * 10

Abs(x) == IF x < 0 THEN -x ELSE x

MaxOf(x, y) == IF x >= y THEN x ELSE y

MinOf(x, y) == IF x <= y THEN x ELSE y

RECURSIVE SumSeq(_)
\* scores.reduce((s, x) => s + x, 0)
SumSeq(s) == IF s = <<>> THEN 0 ELSE SumSeq(SubSeq(s, 1, Len(s) - 1)) + s[Len(s)]

(***************************************************************************)
(* Static tables of the class                                              *)
(***************************************************************************)

\* the ids of SHSCalculator.QUESTIONS, in table order
QUESTIONS == <<"q1", "q2", "q3", "q4", "q5", "q6", "q7", "q8", "q9", "q10">>

QuestionIds == {QUESTIONS[i] : i \in 1..Len(QUESTIONS)}

DIMENSION_PAIRS ==
  << [key |-> "Factual Accuracy",           a |-> "q1", b |-> "q2"],
     [key |-> "Source Reliability",         a |-> "q3", b |-> "q4"],
     [key |-> "Logical Coherence",          a |-> "q5", b |-> "q6"],
     [key |-> "Deceptiveness",              a |-> "q7", b |-> "q8"],
     [key |-> "Responsiveness to Guidance", a |-> "q9", b |-> "q10"] >>

Dims == 1..Len(DIMENSION_PAIRS)

CONS_VERY_GOOD == Scale \div 10

CONS_GOOD == Scale \div 2

\* the value attributes of the five radio inputs rendered per question
RadioValues == <<"-2", "-1", "0", "1", "2">>

RadioValueSet == {RadioValues[i] : i \in 1..Len(RadioValues)}

\* parseInt(sel.value, 10) on the value attribute of a radio input
ParseInt(s) ==
  CASE s = "-2" -> -2
    [] s = "-1" -> -1
    [] s = "0"  -> 0
    [] s = "1"  -> 1
    [] s = "2"  -> 2

\* ${v} in the radio template: the value attribute written for the number v
ValueAttr(v) ==
  CASE v = -2 -> "-2"
    [] v = -1 -> "-1"
    [] v = 0  -> "0"
    [] v = 1  -> "1"
    [] v = 2  -> "2"

\* the language codes that have a table in SHSCalculator.TRANSLATIONS
TranslationTables == {"en", "de", "fr"}

\* language codes a caller may pass; "xx" stands for any code without a table
LangCodes == TranslationTables \cup {"xx"}

\* codes that name a property the TRANSLATIONS object inherits from
\* Object.prototype; "constructor" stands for any of them
InheritedCodes == {"constructor"}

\* a string of a translation table: the table it was taken from and its key
\* (undefined when the value looked up is not a table)
Text(table, key) == [table |-> table, key |-> key]

SegmentKeys ==
  << "segments0", "segments1", "segments2", "segments3", "segments4", "segments5",
     "segments6", "segments7", "segments8", "segments9", "segments10" >>

SegRow(table, i, lo, hi) == [min |-> lo, max |-> hi, label |-> Text(table, SegmentKeys[i])]

\* the tables with one edge of the German table written a thousandth short
SegmentsMutC22(table) ==
  LET rows(t) ==
        << SegRow(t, 1, -1000, -818), SegRow(t, 2, -818, -636),
           SegRow(t, 3, -636, -454),  SegRow(t, 4, -454, -272),
           SegRow(t, 5, -272, -90),
           SegRow(t, 6, -90, IF t = "de" THEN 89 ELSE 90),
           SegRow(t, 7, 90, 272),     SegRow(t, 8, 272, 454),
           SegRow(t, 9, 454, 636),    SegRow(t, 10, 636, 818),
           SegRow(t, 11, 818, 1000) >>
  IN  rows(table)

\* the tables with every edge rounded to one decimal
SegmentsMutC23(table) ==
  << SegRow(table, 1, -1000, -800), SegRow(table, 2, -800, -600),
     SegRow(table, 3, -600, -500),  SegRow(table, 4, -500, -300),
     SegRow(table, 5, -300, -100),  SegRow(table, 6, -100, 100),
     SegRow(table, 7, 100, 300),    SegRow(table, 8, 300, 500),
     SegRow(table, 9, 500, 600),    SegRow(table, 10, 600, 800),
     SegRow(table, 11, 800, 1000) >>

\* TRANSLATIONS[table].segments
Segments(table) ==
  CASE table = "en" ->
       << SegRow("en", 1, -1000, -818), SegRow("en", 2, -818, -636),
          SegRow("en", 3, -636, -454),  SegRow("en", 4, -454, -272),
          SegRow("en", 5, -272, -90),   SegRow("en", 6, -90, 90),
          SegRow("en", 7, 90, 272),     SegRow("en", 8, 272, 454),
          SegRow("en", 9, 454, 636),    SegRow("en", 10, 636, 818),
          SegRow("en", 11, 818, 1000) >>
    [] table = "de" ->
       << SegRow("de", 1, -1000, -818), SegRow("de", 2, -818, -636),
          SegRow("de", 3, -636, -454),  SegRow("de", 4, -454, -272),
          SegRow("de", 5, -272, -90),   SegRow("de", 6, -90, 90),
          SegRow("de", 7, 90, 272),     SegRow("de", 8, 272, 454),
          SegRow("de", 9, 454, 636),    SegRow("de", 10, 636, 818),
          SegRow("de", 11, 818, 1000) >>
    [] table = "fr" ->
       << SegRow("fr", 1, -1000, -818), SegRow("fr", 2, -818, -636),
          SegRow("fr", 3, -636, -454),  SegRow("fr", 4, -454, -272),
          SegRow("fr", 5, -272, -90),   SegRow("fr", 6, -90, 90),
          SegRow("fr", 7, 90, 272),     SegRow("fr", 8, 272, 454),
          SegRow("fr", 9, 454, 636),    SegRow("fr", 10, 636, 818),
          SegRow("fr", 11, 818, 1000) >>

(***************************************************************************)
(* Pure methods                                                            *)
(***************************************************************************)

\* getTranslations(): the table of the current language, English otherwise
\* TRANSLATIONS[code] is truthy for an inherited name too: the lookup then
\* yields the inherited value "Object", which has none of a table's keys
GetTranslations(lang) ==
  IF lang \in TranslationTables THEN lang
  ELSE IF lang \in InheritedCodes THEN "Object"
  ELSE "en"

\* t is one of the tables: t.segments, t.consistency, t.resultTitles and
\* t.breakdownConsistency exist; on any other value they are undefined, and
\* reading a property of them or iterating them throws a TypeError
HasKeys(t) == t \in TranslationTables

\* getDimensionLabel(pair): the field of the pair the current language selects
GetDimensionLabel(lang, d) ==
  [dim |-> d,
   field |-> IF lang = "de" THEN "key_de" ELSE IF lang = "fr" THEN "key_fr" ELSE "key"]

\* getSegmentText(value): the label of the first band that contains the
\* clamped value, the last band's label when no band does
GetSegmentTextMutC12(lang, value) ==
  LET clamped == value
      segments == Segments(GetTranslations(lang))
      hits == {i \in 1..Len(segments) :
                 clamped >= segments[i].min /\ clamped <= segments[i].max}
  IN  IF hits # {}
        THEN segments[CHOOSE i \in hits : \A j \in hits : i <= j].label
        ELSE segments[Len(segments)].label

GetSegmentText(lang, value) ==
  LET clamped == MaxOf(-Scale, MinOf(Scale, value))
      segments == Segments(GetTranslations(lang))
      hits == {i \in 1..Len(segments) :
                 clamped >= segments[i].min /\ clamped <= segments[i].max}
  IN  IF hits # {}
        THEN segments[CHOOSE i \in hits : \A j \in hits : i <= j].label
        ELSE segments[Len(segments)].label

\* formatValue(v) = v.toFixed(2): the value in hundredths.  Every value the
\* calculator formats is a multiple of 0.05, which toFixed(2) prints digit for
\* digit; the rounding below (halves away from zero) is never exercised.
FormatValue(v) ==
  LET a == Abs(v)
      h == (a + 5) \div 10
  IN  [fixed2 |-> IF v < 0 THEN -h ELSE h]

\* the overall message getConsistencySummary pushes first
OverallConsistencyKeyMutC9(overallCons) ==
  IF Abs(overallCons) < CONS_VERY_GOOD THEN "consistency.veryGood"
  ELSE IF Abs(overallCons) < CONS_GOOD THEN "consistency.good"
  ELSE "consistency.inconsistent"

OverallConsistencyKey(overallCons) ==
  IF Abs(overallCons) <= CONS_VERY_GOOD THEN "consistency.veryGood"
  ELSE IF Abs(overallCons) <= CONS_GOOD THEN "consistency.good"
  ELSE "consistency.inconsistent"

\* consList.filter(c => Math.abs(c) > CONS_GOOD).length
OutliersMutC25(consList) ==
  Cardinality({i \in 1..Len(consList) : consList[i] > CONS_GOOD})

OutliersMutC10(consList) ==
  Cardinality({i \in 1..Len(consList) : Abs(consList[i]) >= CONS_GOOD})

Outliers(consList) ==
  Cardinality({i \in 1..Len(consList) : Abs(consList[i]) > CONS_GOOD})

\* getConsistencySummary(overallCons, consList): msgs, joined by " "
GetConsistencySummary(lang, overallCons, consList) ==
  LET t == GetTranslations(lang)
      msgs == << Text(t, OverallConsistencyKey(overallCons)) >>
  IN  IF Outliers(consList) > 0 THEN Append(msgs, Text(t, "consistency.review")) ELSE msgs

\* the consText chosen per dimension in displayResults
BreakdownConsistencyKeyMutC8(consistency) ==
  IF Abs(consistency) >= CONS_GOOD THEN "breakdownConsistency.noConsistent"
  ELSE IF Abs(consistency) < CONS_VERY_GOOD THEN "breakdownConsistency.veryGood"
  ELSE "breakdownConsistency.good"

BreakdownConsistencyKey(consistency) ==
  IF Abs(consistency) > CONS_GOOD THEN "breakdownConsistency.noConsistent"
  ELSE IF Abs(consistency) < CONS_VERY_GOOD THEN "breakdownConsistency.veryGood"
  ELSE "breakdownConsistency.good"

\* (vals[p.a] - vals[p.b]) / 4
DimScoreMutC1(vals, p) == ((vals[p.a] - vals[p.b]) * Scale) \div 2

DimScoreMutC5(vals, p) == ((vals[p.a] - vals[p.b]) * Scale) \div 8

DimScoreMutC6(vals, p) == (Abs(vals[p.a] - vals[p.b]) * Scale) \div 4

DimScore(vals, p) == ((vals[p.a] - vals[p.b]) * Scale) \div 4

\* (vals[p.a] + vals[p.b]) / 4
DimConsistencyMutC26(vals, p) == (Scale * (vals[p.a] + vals[p.b])) \div 2

DimConsistencyMutC2(vals, p) == ((vals[p.a] - vals[p.b]) * Scale) \div 4

DimConsistency(vals, p) == ((vals[p.a] + vals[p.b]) * Scale) \div 4

\* the entry calculate() pushes to breakdown for the pair number d
BreakdownEntryMutC7(lang, vals, d) ==
  [dimension |-> DIMENSION_PAIRS[d],
   score |-> IF lang = "de"
               THEN -DimScore(vals, DIMENSION_PAIRS[d])
               ELSE DimScore(vals, DIMENSION_PAIRS[d]),
   consistency |-> DimConsistency(vals, DIMENSION_PAIRS[d]),
   label |-> GetDimensionLabel(lang, d)]

BreakdownEntryMutC15(lang, vals, d) ==
  LET e == Len(DIMENSION_PAIRS) + 1 - d
  IN  [dimension |-> DIMENSION_PAIRS[e],
       score |-> DimScore(vals, DIMENSION_PAIRS[e]),
       consistency |-> DimConsistency(vals, DIMENSION_PAIRS[e]),
       label |-> GetDimensionLabel(lang, e)]

BreakdownEntry(lang, vals, d) ==
  [dimension |-> DIMENSION_PAIRS[d],
   score |-> DimScore(vals, DIMENSION_PAIRS[d]),
   consistency |-> DimConsistency(vals, DIMENSION_PAIRS[d]),
   label |-> GetDimensionLabel(lang, d)]

\* the mean calculate() takes of the collected scores (or consistencies)
MeanMutC3(xs) == SumSeq(xs) \div Len(QUESTIONS)

MeanMutC4(xs) == SumSeq(xs)

Mean(xs) == SumSeq(xs) \div Len(xs)

\* the object calculate() stores in this.results for the collected answers
MakeResults(lang, vals) ==
  LET breakdown == [d \in Dims |-> BreakdownEntry(lang, vals, d)]
      scores == [d \in Dims |-> breakdown[d].score]
      consistencies == [d \in Dims |-> breakdown[d].consistency]
  IN  [overall |-> Mean(scores),
       overallConsistency |-> Mean(consistencies),
       breakdown |-> breakdown,
       responses |-> vals]

(***************************************************************************)
(* State                                                                   *)
(***************************************************************************)

VARIABLES
  insts,             \* the container ids an SHSCalculator was constructed on
  options,           \* this.options: showGauge, showConsistency
  currentLang,       \* this.currentLang
  responses,         \* this.responses
  results,           \* this.results
  checked,           \* per radio group q<i>-<container id>: the checked value
  formDisplay,       \* style.display of the form card
  resultsDisplay,    \* style.display of the results card
  overallScoreText,  \* textContent of #overall-score-<id>
  overallText,       \* textContent of #overall-text-<id>
  consistencyText,   \* textContent of #consistency-text-<id>
  breakdownText,     \* textContent of #breakdown-text-<id>
  needle,            \* rotation of #shs-needle-<id>, in hundredths of a degree
  activeSegment,     \* index of the gauge path carrying class "active"
  listeners,         \* listeners attached to the rendered lang root, form, back button
  lastDetail,        \* detail of the last shs:calculated event dispatched on the container
  alertOpen,         \* message of the modal alert() a handler is blocked in
  args,              \* the method and arguments of a caller's direct call
  ret,               \* the value the direct call returned
  heard,             \* the shs:calculated events a listener on the container received
                     \* in the step just taken, each with what the listener saw
  held,              \* the value getResults() returned to a caller that kept it
  threw              \* the uncaught exception the step just taken ended with

vars ==
  << insts, options, currentLang, responses, results, checked, formDisplay,
     resultsDisplay, overallScoreText, overallText, consistencyText,
     breakdownText, needle, activeSegment, listeners, lastDetail, alertOpen, args, ret,
     heard, held, threw >>

\* this.results = null
NoResult == [null |-> TRUE]

\* no radio of the group is checked
NoSel == "none"

\* an element without text, no alert open
NoText == <<>>

\* no inline display style on an element
NoStyle == ""

\* no gauge path is active, the needle has no transform
NoSegment == -1

NoNeedle == [transform |-> FALSE]

NoCall == [op |-> "none"]

NoRet == [returned |-> FALSE]

EmptyResponses == <<>>

\* no event was dispatched
NoEvents == <<>>

\* the step ended without an exception
NoError == "none"

\* what render() leaves in the document: fresh, unchecked radios
FreshRadios == [q \in QuestionIds |-> NoSel]

\* what attachEventListeners() adds to freshly rendered elements
FreshListeners == [langRoot |-> 1, form |-> 1, backBtn |-> 1]

(***************************************************************************)
(* Bounds                                                                  *)
(***************************************************************************)

\* the answer sheets of the scoring specification give one dimension pair
\* among the first FreeDims any two answers and all other pairs one common
\* pair of answers
FreeDims == 3

\* the operations specification lets the user leave at most MaxGaps questions
\* unanswered before the last question answered so far
MaxGaps == 1

\* the longest consList passed in a direct call of getConsistencySummary
MaxListLen == 2

(***************************************************************************)
(* Answer sheets                                                           *)
(***************************************************************************)

Likert == {ParseInt(v) : v \in RadioValueSet}

AnswerPairs == Likert \X Likert

\* the sheet that answers pair d with pr[d] = <<a, b>>
SheetOf(pr) ==
  [q \in QuestionIds |->
     LET d == CHOOSE e \in Dims : q \in {DIMENSION_PAIRS[e].a, DIMENSION_PAIRS[e].b}
     IN  IF q = DIMENSION_PAIRS[d].a THEN ValueAttr(pr[d][1]) ELSE ValueAttr(pr[d][2])]

\* spec section 8, scenario 3
Scenario3 == SheetOf(<< <<2, -2>>, <<1, -1>>, <<2, -2>>, <<1, -1>>, <<1, -1>> >>)

\* spec section 8, scenario 6 with the other pairs neutral and with them opposed
Scenario6 == SheetOf(<< <<0, 0>>, <<0, 0>>, <<2, 2>>, <<0, 0>>, <<0, 0>> >>)

Scenario6b == SheetOf(<< <<2, -2>>, <<-1, 1>>, <<1, -1>>, <<2, 2>>, <<0, 0>> >>)

FamilySheets ==
  {SheetOf([d \in Dims |-> IF d = f THEN free ELSE common]) :
     f \in 1..MinOf(FreeDims, Len(DIMENSION_PAIRS)),
     free \in AnswerPairs, common \in AnswerPairs}

CalcSheets == FamilySheets \cup {Scenario3, Scenario6, Scenario6b}

(***************************************************************************)
(* Construction                                                            *)
(***************************************************************************)

\* the options a calculator is constructed with: the defaults (both shown)
\* and both switched off
OptionChoices ==
  {[showGauge |-> TRUE, showConsistency |-> TRUE],
   [showGauge |-> FALSE, showConsistency |-> FALSE]}

\* new SHSCalculator(id, options) on each container of ids, the document as
\* render() and attachEventListeners() leave it, the radio groups apart; the
\* constructor throws, and yields no calculator, under an inherited code
Constructed(ids) ==
  /\ insts = ids
  /\ options \in [ids -> OptionChoices]
  /\ currentLang \in [ids -> LangCodes]
  /\ responses = [c \in ids |-> EmptyResponses]
  /\ results = [c \in ids |-> NoResult]
  /\ formDisplay = [c \in ids |-> NoStyle]
  /\ resultsDisplay = [c \in ids |-> NoStyle]
  /\ overallScoreText = [c \in ids |-> NoText]
  /\ overallText = [c \in ids |-> NoText]
  /\ consistencyText = [c \in ids |-> NoText]
  /\ breakdownText = [c \in ids |-> NoText]
  /\ needle = [c \in ids |-> NoNeedle]
  /\ activeSegment = [c \in ids |-> NoSegment]
  /\ listeners = [c \in ids |-> FreshListeners]
  /\ lastDetail = [c \in ids |-> NoResult]
  /\ alertOpen = NoText
  /\ ret = NoRet
  /\ heard = [c \in ids |-> NoEvents]
  /\ held = [c \in ids |-> NoResult]
  /\ threw = NoError

Init ==
  /\ Constructed({"c1"})
  /\ checked = [c \in {"c1"} |-> FreshRadios]
  /\ args = NoCall

(***************************************************************************)
(* Methods that change state                                               *)
(***************************************************************************)

\* alert() is modal: the handler that raised it has not returned and no
\* other script of the page runs until the user dismisses it
Idle == alertOpen = NoText

\* the loop index at which calculate() finds no checked radio, 0 when the
\* loop runs to its end
FirstMissing(c) ==
  LET missing == {i \in 1..Len(QUESTIONS) : checked[c][QUESTIONS[i]] = NoSel}
  IN  IF missing = {} THEN 0 ELSE CHOOSE i \in missing : \A j \in missing : i <= j

\* vals, as the loop of calculate() collects it from the checked radios;
\* first the answers read with radio names that lack the container id: the
\* first checked radio of the document that carries the question's name
CollectValsMutC21(c) ==
  [q \in QuestionIds |->
     ParseInt(checked[CHOOSE d \in insts : checked[d][q] # NoSel][q])]

CollectValsMutC14(c) == [q \in QuestionIds |-> ParseInt(checked[c][q]) + 2]

CollectVals(c) == [q \in QuestionIds |-> ParseInt(checked[c][q])]

\* showResults()
ShowResults(c) ==
  /\ resultsDisplay' = [resultsDisplay EXCEPT ![c] = "block"]
  /\ formDisplay' = [formDisplay EXCEPT ![c] = "none"]

\* showForm()
ShowFormViews(c) ==
  /\ resultsDisplay' = [resultsDisplay EXCEPT ![c] = "none"]
  /\ formDisplay' = [formDisplay EXCEPT ![c] = "block"]

\* the segment index rounded to the nearest segment instead of floored
GaugeIndexMutC24(value) ==
  LET clampedValue == MaxOf(-Scale, MinOf(Scale, value))
      normalizedValue == (clampedValue + Scale) \div 2
      activeSegmentIndex == ((normalizedValue * 11) + (Scale \div 2)) \div Scale
  IN  MaxOf(0, MinOf(10, activeSegmentIndex))

\* the segment setGauge(value) marks active
GaugeIndex(value) ==
  LET clampedValue == MaxOf(-Scale, MinOf(Scale, value))
      normalizedValue == (clampedValue + Scale) \div 2
      activeSegmentIndex == (normalizedValue * 11) \div Scale
  IN  MaxOf(0, MinOf(10, activeSegmentIndex))

\* the rotation setGauge(value) gives the needle, in hundredths of a degree
NeedleAngle(value) ==
  LET clampedValue == MaxOf(-Scale, MinOf(Scale, value))
      normalizedValue == (clampedValue + Scale) \div 2
  IN  (-135 * 100) + ((normalizedValue * 270 * 100) \div Scale)

\* setGauge(value); the needle and the segments exist when showGauge is set
SetGauge(c, value) ==
  /\ needle' = [needle EXCEPT ![c] = [transform |-> TRUE, angle |-> NeedleAngle(value)]]
  /\ activeSegment' = [activeSegment EXCEPT ![c] = GaugeIndex(value)]

\* the text displayResults() writes to the breakdown element, entry by entry
BreakdownLine(lang, b) ==
  [label |-> b.label,
   score |-> FormatValue(b.score),
   segment |-> GetSegmentText(lang, b.score),
   consText |-> Text(GetTranslations(lang), BreakdownConsistencyKey(b.consistency))]

\* displayResults(), reading the results r just stored
DisplayResults(c, r) ==
  /\ overallScoreText' = [overallScoreText EXCEPT ![c] = FormatValue(r.overall)]
  /\ IF options[c].showGauge
       THEN SetGauge(c, r.overall)
       ELSE UNCHANGED << needle, activeSegment >>
  /\ overallText' = [overallText EXCEPT ![c] = GetSegmentText(currentLang[c], r.overall)]
  /\ IF options[c].showConsistency
       THEN consistencyText' =
              [consistencyText EXCEPT ![c] =
                 GetConsistencySummary(currentLang[c], r.overallConsistency,
                                       [d \in 1..Len(r.breakdown) |-> r.breakdown[d].consistency])]
       ELSE UNCHANGED consistencyText
  /\ breakdownText' =
       [breakdownText EXCEPT ![c] =
          [d \in 1..Len(r.breakdown) |-> BreakdownLine(currentLang[c], r.breakdown[d])]]
  /\ ShowResults(c)

\* displayResults() when the value getTranslations() yields is not a table:
\* the score text and the gauge are set, then getSegmentText() iterates the
\* undefined t.segments and throws; nothing after it runs
DisplayResultsThrows(c, r) ==
  /\ overallScoreText' = [overallScoreText EXCEPT ![c] = FormatValue(r.overall)]
  /\ IF options[c].showGauge
       THEN SetGauge(c, r.overall)
       ELSE UNCHANGED << needle, activeSegment >>
  /\ UNCHANGED << overallText, consistencyText, breakdownText, formDisplay,
                  resultsDisplay >>

\* the event a listener receives: its detail, and what getResults() and the
\* results card's display style were when the listener ran
CalculatedEvent(detail, stored, shown) ==
  [type |-> "shs:calculated", detail |-> detail, getResults |-> stored, resultsDisplay |-> shown]

\* container.dispatchEvent(new CustomEvent('shs:calculated', {detail:
\* this.results})), the last statement of calculate(): listeners run after
\* the results are stored and displayed
DispatchedMutC16(c) ==
  << CalculatedEvent(results'[c], results[c], resultsDisplay[c]) >>

Dispatched(c) ==
  << CalculatedEvent(results'[c], results'[c], resultsDisplay'[c]) >>

\* this.results = { ... } stores a new object: an object a caller kept from
\* an earlier getResults() is another object and keeps its fields
KeptAcrossStoreMutC20(kept, current, fresh) ==
  IF kept # NoResult /\ kept = current THEN fresh ELSE kept

KeptAcrossStore(kept, current, fresh) == kept

\* calculate() finds a question without a checked radio: alert and return
MissingAnswerMutC13(c) ==
  /\ alertOpen' = Text(GetTranslations(currentLang[c]), "alert")
  /\ results' = [results EXCEPT ![c] = NoResult]
  /\ heard' = [heard EXCEPT ![c] = NoEvents]
  /\ threw' = NoError
  /\ UNCHANGED << lastDetail, overallScoreText, overallText, consistencyText,
                  breakdownText, needle, activeSegment, formDisplay, resultsDisplay,
                  held >>

MissingAnswer(c) ==
  /\ alertOpen' = Text(GetTranslations(currentLang[c]), "alert")
  /\ heard' = [heard EXCEPT ![c] = NoEvents]
  /\ threw' = NoError
  /\ UNCHANGED << results, lastDetail, overallScoreText, overallText,
                  consistencyText, breakdownText, needle, activeSegment,
                  formDisplay, resultsDisplay, held >>

\* calculate(): the form's submit handler and the public method
Calculate(c) ==
  /\ c \in insts
  /\ Idle
  /\ IF FirstMissing(c) # 0
       THEN MissingAnswer(c)
       ELSE /\ results' = [results EXCEPT ![c] = MakeResults(currentLang[c], CollectVals(c))]
            /\ held' = [held EXCEPT ![c] = KeptAcrossStore(held[c], results[c], results'[c])]
            /\ IF HasKeys(GetTranslations(currentLang[c]))
                 THEN /\ DisplayResults(c, results'[c])
                      /\ lastDetail' = [lastDetail EXCEPT ![c] = results'[c]]
                      /\ heard' = [heard EXCEPT ![c] = Dispatched(c)]
                      /\ threw' = NoError
                 ELSE /\ DisplayResultsThrows(c, results'[c])
                      /\ heard' = [heard EXCEPT ![c] = NoEvents]
                      /\ threw' = "TypeError"
                      /\ UNCHANGED lastDetail
            /\ UNCHANGED alertOpen
  /\ UNCHANGED << insts, options, currentLang, responses, checked, listeners, args, ret >>

\* the listeners on the language selector, the form and the Back button
\* after render(): assigning container.innerHTML replaces the three elements
\* by new ones, which carry no listener
RenderedMutC27(l) == l

Rendered(l) == [langRoot |-> 0, form |-> 0, backBtn |-> 0]

\* attachEventListeners(): one more listener on each of the three elements
AttachEventListeners(l) == [target \in DOMAIN l |-> l[target] + 1]

\* setLanguage(lang): render() rewrites the container, attachEventListeners()
\* wires the new elements
SetLanguageMutC28(c, lang) ==
  /\ c \in insts
  /\ Idle
  /\ currentLang' = [currentLang EXCEPT ![c] = lang]
  /\ heard' = [heard EXCEPT ![c] = NoEvents]
  /\ IF HasKeys(GetTranslations(lang))
       THEN /\ UNCHANGED checked
            /\ formDisplay' = [formDisplay EXCEPT ![c] = NoStyle]
            /\ resultsDisplay' = [resultsDisplay EXCEPT ![c] = NoStyle]
            /\ overallScoreText' = [overallScoreText EXCEPT ![c] = NoText]
            /\ overallText' = [overallText EXCEPT ![c] = NoText]
            /\ consistencyText' = [consistencyText EXCEPT ![c] = NoText]
            /\ breakdownText' = [breakdownText EXCEPT ![c] = NoText]
            /\ needle' = [needle EXCEPT ![c] = NoNeedle]
            /\ activeSegment' = [activeSegment EXCEPT ![c] = NoSegment]
            /\ listeners' =
                 [listeners EXCEPT ![c] = AttachEventListeners(Rendered(listeners[c]))]
            /\ threw' = NoError
       ELSE \* render() throws on t.resultTitles.overall while it builds the
            \* markup: the container keeps its content and nothing is attached
            /\ threw' = "TypeError"
            /\ UNCHANGED << checked, formDisplay, resultsDisplay, overallScoreText,
                            overallText, consistencyText, breakdownText, needle,
                            activeSegment, listeners >>
  /\ UNCHANGED << insts, options, responses, results, lastDetail, alertOpen, args, ret,
                  held >>

SetLanguage(c, lang) ==
  /\ c \in insts
  /\ Idle
  /\ currentLang' = [currentLang EXCEPT ![c] = lang]
  /\ heard' = [heard EXCEPT ![c] = NoEvents]
  /\ IF HasKeys(GetTranslations(lang))
       THEN /\ checked' = [checked EXCEPT ![c] = FreshRadios]
            /\ formDisplay' = [formDisplay EXCEPT ![c] = NoStyle]
            /\ resultsDisplay' = [resultsDisplay EXCEPT ![c] = NoStyle]
            /\ overallScoreText' = [overallScoreText EXCEPT ![c] = NoText]
            /\ overallText' = [overallText EXCEPT ![c] = NoText]
            /\ consistencyText' = [consistencyText EXCEPT ![c] = NoText]
            /\ breakdownText' = [breakdownText EXCEPT ![c] = NoText]
            /\ needle' = [needle EXCEPT ![c] = NoNeedle]
            /\ activeSegment' = [activeSegment EXCEPT ![c] = NoSegment]
            /\ listeners' =
                 [listeners EXCEPT ![c] = AttachEventListeners(Rendered(listeners[c]))]
            /\ threw' = NoError
       ELSE \* render() throws on t.resultTitles.overall while it builds the
            \* markup: the container keeps its content and nothing is attached
            /\ threw' = "TypeError"
            /\ UNCHANGED << checked, formDisplay, resultsDisplay, overallScoreText,
                            overallText, consistencyText, breakdownText, needle,
                            activeSegment, listeners >>
  /\ UNCHANGED << insts, options, responses, results, lastDetail, alertOpen, args, ret,
                  held >>

\* the click handler of the Back button, and the public showForm()
ShowForm(c) ==
  /\ c \in insts
  /\ Idle
  /\ ShowFormViews(c)
  /\ heard' = [heard EXCEPT ![c] = NoEvents]
  /\ threw' = NoError
  /\ UNCHANGED << insts, options, currentLang, responses, results, checked,
                  overallScoreText, overallText, consistencyText, breakdownText,
                  needle, activeSegment, listeners, lastDetail, alertOpen, args, ret,
                  held >>

\* reset()
ResetMutC29(c) ==
  /\ c \in insts
  /\ Idle
  /\ responses' = [responses EXCEPT ![c] = EmptyResponses]
  /\ results' = [results EXCEPT ![c] = NoResult]
  /\ checked' = [checked EXCEPT ![c] = [q \in QuestionIds |-> NoSel]]
  /\ heard' = [heard EXCEPT ![c] = NoEvents]
  /\ threw' = NoError
  /\ UNCHANGED << insts, options, currentLang, overallScoreText, overallText,
                  consistencyText, breakdownText, needle, activeSegment,
                  listeners, lastDetail, alertOpen, args, ret, held, formDisplay,
                  resultsDisplay >>

ResetMutC17(c) ==
  /\ c \in insts
  /\ Idle
  /\ responses' = [responses EXCEPT ![c] = EmptyResponses]
  /\ ShowFormViews(c)
  /\ checked' = [checked EXCEPT ![c] = [q \in QuestionIds |-> NoSel]]
  /\ heard' = [heard EXCEPT ![c] = NoEvents]
  /\ threw' = NoError
  /\ UNCHANGED << insts, options, currentLang, results, overallScoreText, overallText,
                  consistencyText, breakdownText, needle, activeSegment,
                  listeners, lastDetail, alertOpen, args, ret, held >>

Reset(c) ==
  /\ c \in insts
  /\ Idle
  /\ responses' = [responses EXCEPT ![c] = EmptyResponses]
  /\ results' = [results EXCEPT ![c] = NoResult]
  /\ ShowFormViews(c)
  /\ checked' = [checked EXCEPT ![c] = [q \in QuestionIds |-> NoSel]]
  /\ heard' = [heard EXCEPT ![c] = NoEvents]
  /\ threw' = NoError
  /\ UNCHANGED << insts, options, currentLang, overallScoreText, overallText,
                  consistencyText, breakdownText, needle, activeSegment,
                  listeners, lastDetail, alertOpen, args, ret, held >>

(***************************************************************************)
(* The user and the callers                                                *)
(***************************************************************************)

\* the answers the user of the operations specification gives: to the first
\* question the answer of Scenario3 or its opposite, to every other question
\* the answer of Scenario3
Offered(q) ==
  IF q = QUESTIONS[1]
    THEN {Scenario3[q], ValueAttr(-ParseInt(Scenario3[q]))}
    ELSE {Scenario3[q]}

\* the number of unanswered questions before the last answered one
Gaps(sel) ==
  LET answered == {i \in 1..Len(QUESTIONS) : sel[QUESTIONS[i]] # NoSel}
  IN  Cardinality({i \in 1..Len(QUESTIONS) : i \notin answered /\ \E j \in answered : i < j})

\* the user checks the radio with value v of question q
Answer(c, q, v) ==
  /\ c \in insts
  /\ Idle
  /\ v \in Offered(q)
  /\ checked[c][q] # v
  /\ Gaps([checked[c] EXCEPT ![q] = v]) <= MaxGaps
  /\ checked' = [checked EXCEPT ![c][q] = v]
  /\ heard' = [heard EXCEPT ![c] = NoEvents]
  /\ threw' = NoError
  /\ UNCHANGED << insts, options, currentLang, responses, results, formDisplay,
                  resultsDisplay, overallScoreText, overallText, consistencyText,
                  breakdownText, needle, activeSegment, listeners, lastDetail,
                  alertOpen, args, ret, held >>

\* the user dismisses the alert; the handler that raised it returns
DismissAlert ==
  /\ alertOpen # NoText
  /\ alertOpen' = NoText
  /\ UNCHANGED << insts, options, currentLang, responses, results, checked,
                  formDisplay, resultsDisplay, overallScoreText, overallText,
                  consistencyText, breakdownText, needle, activeSegment, listeners,
                  lastDetail, args, ret, heard, held, threw >>

\* a caller invokes getResults() and keeps what it returns
GetResults(c) ==
  /\ c \in insts
  /\ Idle
  /\ held' = [held EXCEPT ![c] = results[c]]
  /\ heard' = [heard EXCEPT ![c] = NoEvents]
  /\ threw' = NoError
  /\ UNCHANGED << insts, options, currentLang, responses, results, checked,
                  formDisplay, resultsDisplay, overallScoreText, overallText,
                  consistencyText, breakdownText, needle, activeSegment, listeners,
                  lastDetail, alertOpen, args, ret >>

\* consistency values passed in direct calls: the thresholds, their
\* neighbours, the values a calculation can produce around them, the ends
ProbeCons ==
  {0, 50, 99, 100, 101, 150, 250, 499, 500, 501, 510, 550, 750, 1000,
   -50, -99, -100, -101, -250, -499, -500, -501, -750, -1000}

ProbeLists == UNION {[1..n -> {0, 250, 500, 501, -500, -750}] : n \in 0..MaxListLen}

\* the direct calls of getConsistencySummary(overallCons, consList)
SummaryCalls ==
  [op : {"getConsistencySummary"}, overallCons : ProbeCons, consList : ProbeLists]

\* a caller invokes getConsistencySummary(overallCons, consList) directly
CallGetConsistencySummary(c) ==
  /\ c \in insts
  /\ Idle
  /\ args.op = "getConsistencySummary"
  /\ IF HasKeys(GetTranslations(currentLang[c]))
       THEN /\ ret' = [returned |-> TRUE,
                       value |-> GetConsistencySummary(currentLang[c], args.overallCons,
                                                       args.consList)]
            /\ threw' = NoError
       ELSE ret' = NoRet /\ threw' = "TypeError"
  /\ heard' = [heard EXCEPT ![c] = NoEvents]
  /\ UNCHANGED << insts, options, currentLang, responses, results, checked,
                  formDisplay, resultsDisplay, overallScoreText, overallText,
                  consistencyText, breakdownText, needle, activeSegment, listeners,
                  lastDetail, alertOpen, args, held >>

\* score values passed in direct calls of getSegmentText: the ends, the
\* edges shared by two bands, their neighbours, values inside bands, values
\* outside [-1, 1]
SegmentProbes ==
  {-2000, -1001, -1000, -999, -819, -818, -817, -700, -636, -454, -272, -250,
   -91, -90, -89, -1, 0, 1, 89, 90, 91, 250, 272, 454, 636, 700, 817, 818, 819,
   999, 1000, 1001, 2000}

\* the direct calls of getSegmentText(value)
SegmentCalls == [op : {"getSegmentText"}, value : SegmentProbes]

\* a caller invokes getSegmentText(value) directly
CallGetSegmentText(c) ==
  /\ c \in insts
  /\ Idle
  /\ args.op = "getSegmentText"
  /\ IF HasKeys(GetTranslations(currentLang[c]))
       THEN /\ ret' = [returned |-> TRUE, value |-> GetSegmentText(currentLang[c], args.value)]
            /\ threw' = NoError
       ELSE ret' = NoRet /\ threw' = "TypeError"
  /\ heard' = [heard EXCEPT ![c] = NoEvents]
  /\ UNCHANGED << insts, options, currentLang, responses, results, checked,
                  formDisplay, resultsDisplay, overallScoreText, overallText,
                  consistencyText, breakdownText, needle, activeSegment, listeners,
                  lastDetail, alertOpen, args, held >>

\* breakdown entries handed to the callback displayResults() maps over
\* results.breakdown: the first pair with a score and each probed consistency
BreakdownProbes ==
  {[dimension |-> DIMENSION_PAIRS[1], score |-> s, consistency |-> k,
    label |-> GetDimensionLabel("en", 1)] : s \in {0, 750}, k \in ProbeCons}

BreakdownCalls == [op : {"breakdownLine"}, entry : BreakdownProbes]

\* the callback of displayResults() is applied to one breakdown entry
CallBreakdownLine(c) ==
  /\ c \in insts
  /\ Idle
  /\ args.op = "breakdownLine"
  /\ IF HasKeys(GetTranslations(currentLang[c]))
       THEN /\ ret' = [returned |-> TRUE, value |-> BreakdownLine(currentLang[c], args.entry)]
            /\ threw' = NoError
       ELSE ret' = NoRet /\ threw' = "TypeError"
  /\ heard' = [heard EXCEPT ![c] = NoEvents]
  /\ UNCHANGED << insts, options, currentLang, responses, results, checked,
                  formDisplay, resultsDisplay, overallScoreText, overallText,
                  consistencyText, breakdownText, needle, activeSegment, listeners,
                  lastDetail, alertOpen, args, held >>

(***************************************************************************)
(* The standalone script, src/shs-calculator.js                            *)
(*                                                                         *)
(* The script serves one page; the page is kept under an id of its own in  *)
(* the variables of the document (checked, the texts, the two cards, the   *)
(* gauge).  The script has no results object, options or responses.  Its   *)
(* text tables hold, key by key, the strings of SHSCalculator.TRANSLATIONS *)
(* and its pairs the strings of DIMENSION_PAIRS, so a string is written as *)
(* the same Text(table, key) and the same label record here.               *)
(***************************************************************************)

\* const pairs
pairs ==
  << [key |-> "Factual Accuracy", a |-> "q1", b |-> "q2"],
     [key |-> "Source Reliability", a |-> "q3", b |-> "q4"],
     [key |-> "Logical Coherence", a |-> "q5", b |-> "q6"],
     [key |-> "Deceptiveness", a |-> "q7", b |-> "q8"],
     [key |-> "Responsiveness to Guidance", a |-> "q9", b |-> "q10"] >>

\* const CONS_VERY_GOOD and CONS_GOOD of the script
script_CONS_VERY_GOOD == Scale \div 10

script_CONS_GOOD == Scale \div 2

\* table[lang] || table.en for one of the script's text tables
tableOrEn(lang) ==
  IF lang \in TranslationTables THEN lang
  ELSE IF lang \in InheritedCodes THEN "Object"
  ELSE "en"

\* getDimensionLabel(pair, lang)
getDimensionLabel(pair, lang) ==
  [dim |-> CHOOSE d \in 1..Len(pairs) : pairs[d] = pair,
   field |-> IF lang = "de" THEN "key_de" ELSE IF lang = "fr" THEN "key_fr" ELSE "key"]

\* const segmentTexts: the rows of one language
segmentTexts(table) ==
  LET row(i, lo, hi) == [min |-> lo, max |-> hi, label |-> Text(table, SegmentKeys[i])]
  IN  << row(1, -1000, -818), row(2, -818, -636), row(3, -636, -454),
         row(4, -454, -272),  row(5, -272, -90),  row(6, -90, 90),
         row(7, 90, 272),     row(8, 272, 454),   row(9, 454, 636),
         row(10, 636, 818),   row(11, 818, 1000) >>

\* getSegmentText(value, lang)
getSegmentText(value, lang) ==
  LET clamped == MaxOf(-Scale, MinOf(Scale, value))
      texts == segmentTexts(tableOrEn(lang))
      hits == {i \in 1..Len(texts) : clamped >= texts[i].min /\ clamped <= texts[i].max}
  IN  IF hits # {}
        THEN texts[CHOOSE i \in hits : \A j \in hits : i <= j].label
        ELSE texts[Len(texts)].label

\* formatVal(v) = v.toFixed(2), in hundredths
formatVal(v) ==
  LET a == Abs(v)
      h == (a + 5) \div 10
  IN  [fixed2 |-> IF v < 0 THEN -h ELSE h]

\* consistencySummary(overallCons, consList, lang): msgs, joined by " "
consistencySummaryMutC30(overallCons, consList, lang) ==
  LET texts == tableOrEn(lang)
      first == IF Abs(overallCons) < script_CONS_VERY_GOOD THEN "consistency.veryGood"
               ELSE IF Abs(overallCons) <= script_CONS_GOOD THEN "consistency.good"
               ELSE "consistency.inconsistent"
      outliers == Cardinality({i \in 1..Len(consList) : Abs(consList[i]) > script_CONS_GOOD})
      msgs == << Text(texts, first) >>
  IN  IF outliers > 0 THEN Append(msgs, Text(texts, "consistency.review")) ELSE msgs

consistencySummary(overallCons, consList, lang) ==
  LET texts == tableOrEn(lang)
      first == IF Abs(overallCons) <= script_CONS_VERY_GOOD THEN "consistency.veryGood"
               ELSE IF Abs(overallCons) <= script_CONS_GOOD THEN "consistency.good"
               ELSE "consistency.inconsistent"
      outliers == Cardinality({i \in 1..Len(consList) : Abs(consList[i]) > script_CONS_GOOD})
      msgs == << Text(texts, first) >>
  IN  IF outliers > 0 THEN Append(msgs, Text(texts, "consistency.review")) ELSE msgs

\* setGauge(value) of the script: the active segment and the needle angle
setGaugeIndex(value) ==
  LET clampedValue == MaxOf(-Scale, MinOf(Scale, value))
      normalizedValue == (clampedValue + Scale) \div 2
      activeSegmentIndex == (normalizedValue * 11) \div Scale
  IN  MaxOf(0, MinOf(10, activeSegmentIndex))

setGaugeAngle(value) ==
  LET clampedValue == MaxOf(-Scale, MinOf(Scale, value))
      normalizedValue == (clampedValue + Scale) \div 2
  IN  (-135 * 100) + ((normalizedValue * 270 * 100) \div Scale)

\* the breakdown entries the submit handler pushes for the answers vals
scriptBreakdown(vals) ==
  [d \in 1..Len(pairs) |->
     [a |-> pairs[d].a, b |-> pairs[d].b,
      score |-> ((vals[pairs[d].a] - vals[pairs[d].b]) * Scale) \div 4,
      cons |-> ((vals[pairs[d].a] + vals[pairs[d].b]) * Scale) \div 4]]

\* the text the submit handler writes for one breakdown entry
scriptBreakdownLine(b, lang) ==
  [label |-> getDimensionLabel(CHOOSE p \in {pairs[d] : d \in 1..Len(pairs)} :
                                 p.a = b.a /\ p.b = b.b, lang),
   score |-> formatVal(b.score),
   segment |-> getSegmentText(b.score, lang),
   consText |-> Text(tableOrEn(lang),
                     IF Abs(b.cons) > script_CONS_GOOD THEN "breakdownConsistency.noConsistent"
                     ELSE IF Abs(b.cons) < script_CONS_VERY_GOOD
                            THEN "breakdownConsistency.veryGood"
                            ELSE "breakdownConsistency.good")]

\* the submit listener of the script's form, on the page kept under s
ScriptSubmit(s) ==
  /\ s \in insts
  /\ Idle
  /\ LET missing == {i \in 1..10 : checked[s][QUESTIONS[i]] = NoSel}
     IN  IF missing # {}
           THEN /\ alertOpen' = Text(tableOrEn(currentLang[s]), "alert")
                /\ UNCHANGED << overallScoreText, needle, activeSegment, overallText,
                                consistencyText, breakdownText, resultsDisplay,
                                formDisplay >>
           ELSE LET vals == [q \in QuestionIds |-> ParseInt(checked[s][q])]
                    breakdown == scriptBreakdown(vals)
                    scores == [d \in 1..Len(pairs) |-> breakdown[d].score]
                    consistencies == [d \in 1..Len(pairs) |-> breakdown[d].cons]
                    overall == SumSeq(scores) \div Len(scores)
                    overallCons == SumSeq(consistencies) \div Len(consistencies)
                IN  /\ overallScoreText' = [overallScoreText EXCEPT ![s] = formatVal(overall)]
                    /\ needle' = [needle EXCEPT ![s] =
                                    [transform |-> TRUE, angle |-> setGaugeAngle(overall)]]
                    /\ activeSegment' = [activeSegment EXCEPT ![s] = setGaugeIndex(overall)]
                    /\ overallText' =
                         [overallText EXCEPT ![s] = getSegmentText(overall, currentLang[s])]
                    /\ consistencyText' =
                         [consistencyText EXCEPT ![s] =
                            consistencySummary(overallCons, consistencies, currentLang[s])]
                    /\ breakdownText' =
                         [breakdownText EXCEPT ![s] =
                            [d \in 1..Len(breakdown) |->
                               scriptBreakdownLine(breakdown[d], currentLang[s])]]
                    /\ resultsDisplay' = [resultsDisplay EXCEPT ![s] = "block"]
                    /\ formDisplay' = [formDisplay EXCEPT ![s] = "none"]
                    /\ UNCHANGED alertOpen
  /\ heard' = [heard EXCEPT ![s] = NoEvents]
  /\ threw' = NoError
  /\ UNCHANGED << insts, options, currentLang, responses, results, checked, listeners,
                  lastDetail, args, ret, held >>

(***************************************************************************)
(* Specifications                                                          *)
(***************************************************************************)

\* the operations of one calculator, from its construction
Next ==
  \/ \E c \in insts, q \in QuestionIds, v \in RadioValueSet : Answer(c, q, v)
  \/ \E c \in insts : Calculate(c)
  \/ \E c \in insts, lang \in LangCodes : SetLanguage(c, lang)
  \/ \E c \in insts : ShowForm(c)
  \/ \E c \in insts : Reset(c)
  \/ DismissAlert

Spec == Init /\ [][Next]_vars

\* scoring: a calculator whose form the user has filled in with a sheet
InitCalc ==
  /\ Constructed({"c1"})
  /\ checked \in [{"c1"} -> CalcSheets]
  /\ args = NoCall

NextCalc == \E c \in insts : Calculate(c)

SpecCalc == InitCalc /\ [][NextCalc]_vars

\* direct calls of the pure methods of a constructed calculator
InitApi ==
  /\ Constructed({"c1"})
  /\ checked = [c \in {"c1"} |-> FreshRadios]
  /\ args \in SummaryCalls \cup SegmentCalls \cup BreakdownCalls

NextApi ==
  \/ \E c \in insts : CallGetConsistencySummary(c)
  \/ \E c \in insts : CallGetSegmentText(c)
  \/ \E c \in insts : CallBreakdownLine(c)

SpecApi == InitApi /\ [][NextApi]_vars

\* the languages set while a caller keeps results
HoldLangs == {"en", "de"}

\* a calculator with the default options and language whose caller reads
\* getResults() between the operations and keeps what it returned
InitHold ==
  /\ Init
  /\ options = [c \in insts |-> [showGauge |-> TRUE, showConsistency |-> TRUE]]
  /\ currentLang = [c \in insts |-> "en"]

NextHold ==
  \/ \E c \in insts, q \in QuestionIds, v \in RadioValueSet : Answer(c, q, v)
  \/ \E c \in insts : Calculate(c)
  \/ \E c \in insts, lang \in HoldLangs : SetLanguage(c, lang)
  \/ \E c \in insts : ShowForm(c)
  \/ \E c \in insts : Reset(c)
  \/ DismissAlert
  \/ \E c \in insts : GetResults(c)

SpecHold == InitHold /\ [][NextHold]_vars

\* the operations of a calculator whose callers pass setLanguage() any
\* string, names inherited from Object.prototype included
InitLang ==
  /\ Init
  /\ options = [c \in insts |-> [showGauge |-> TRUE, showConsistency |-> TRUE]]

NextLang ==
  \/ \E c \in insts, q \in QuestionIds, v \in RadioValueSet : Answer(c, q, v)
  \/ \E c \in insts : Calculate(c)
  \/ \E c \in insts, lang \in LangCodes \cup InheritedCodes : SetLanguage(c, lang)
  \/ \E c \in insts : ShowForm(c)
  \/ \E c \in insts : Reset(c)
  \/ DismissAlert

SpecLang == InitLang /\ [][NextLang]_vars

\* the questions the user of the two-calculator page answers anew
Reanswered == {QUESTIONS[1]}

\* two calculators with the default options on containers with different
\* ids, one in English and one in German, each form filled in by the user
InitTwo ==
  /\ Constructed({"c1", "c2"})
  /\ options = [c \in insts |-> [showGauge |-> TRUE, showConsistency |-> TRUE]]
  /\ currentLang = [c \in insts |-> IF c = "c1" THEN "en" ELSE "de"]
  /\ checked = [c \in insts |-> IF c = "c1" THEN Scenario3 ELSE Scenario6b]
  /\ args = NoCall

NextTwo ==
  \/ \E c \in insts, q \in Reanswered, v \in RadioValueSet : Answer(c, q, v)
  \/ \E c \in insts : Calculate(c)
  \/ \E c \in insts, lang \in HoldLangs : SetLanguage(c, lang)
  \/ \E c \in insts : ShowForm(c)
  \/ \E c \in insts : Reset(c)
  \/ DismissAlert

SpecTwo == InitTwo /\ [][NextTwo]_vars

\* sheets with an unanswered question: Scenario3 with one answer missing,
\* and the empty form
IncompleteSheets ==
  {[Scenario3 EXCEPT ![q] = NoSel] : q \in QuestionIds} \cup {FreshRadios}

\* the class on container c1 and the standalone page s1, in the same
\* language and with the same sheet filled in
InitEquiv ==
  /\ Constructed({"c1", "s1"})
  /\ options = [c \in insts |-> [showGauge |-> TRUE, showConsistency |-> TRUE]]
  /\ \E lang \in TranslationTables : currentLang = [c \in insts |-> lang]
  /\ \E sheet \in CalcSheets \cup IncompleteSheets : checked = [c \in insts |-> sheet]
  /\ args = NoCall

NextEquiv ==
  \/ Calculate("c1")
  \/ ScriptSubmit("s1")
  \/ DismissAlert

SpecEquiv == InitEquiv /\ [][NextEquiv]_vars

(***************************************************************************)
(* Properties of the scoring                                               *)
(***************************************************************************)

\* the answer the checked radio of question q carries
Answered(c, q) == ParseInt(checked[c][q])

Calculated(c) == results[c] # NoResult

\* C1: for every complete answer set and every dimension pair (a, b),
\* calculate() stores score = (response[a] - response[b]) / 4
C1_Score ==
  \A c \in insts : Calculated(c) =>
    \A d \in Dims :
      /\ results[c].breakdown[d].dimension = DIMENSION_PAIRS[d]
      /\ 4 * results[c].breakdown[d].score =
           Scale * (Answered(c, DIMENSION_PAIRS[d].a) - Answered(c, DIMENSION_PAIRS[d].b))

C1_Witness ==
  \E c \in insts :
    /\ Calculated(c)
    /\ Answered(c, "q1") = 1 /\ Answered(c, "q2") = -2
    /\ results[c].breakdown[1].score = 750

\* C2: for every complete answer set and every dimension pair (a, b),
\* calculate() stores consistency = (response[a] + response[b]) / 4
C2_Consistency ==
  \A c \in insts : Calculated(c) =>
    \A d \in Dims :
      4 * results[c].breakdown[d].consistency =
        Scale * (Answered(c, DIMENSION_PAIRS[d].a) + Answered(c, DIMENSION_PAIRS[d].b))

C2_Witness ==
  \E c \in insts :
    /\ Calculated(c)
    /\ Answered(c, "q3") = -2 /\ Answered(c, "q4") = -1
    /\ results[c].breakdown[2].consistency = -750

\* the stored dimension scores and consistencies, in breakdown order
StoredScores(r) == [d \in 1..Len(r.breakdown) |-> r.breakdown[d].score]

StoredConsistencies(r) == [d \in 1..Len(r.breakdown) |-> r.breakdown[d].consistency]

\* C3: the overall score is the arithmetic mean of the 5 unrounded dimension
\* scores, the overall consistency the mean of the 5 unrounded dimension
\* consistencies; the answers of scenario 3 give the dimension scores
\* 1, 0.5, 1, 0.5, 0.5, the overall score 0.7 and the overall consistency 0
C3_Mean ==
  \A c \in insts : Calculated(c) =>
    /\ Len(results[c].breakdown) = 5
    /\ 5 * results[c].overall = SumSeq(StoredScores(results[c]))
    /\ 5 * results[c].overallConsistency = SumSeq(StoredConsistencies(results[c]))
    /\ checked[c] = Scenario3 =>
         /\ StoredScores(results[c]) = << 1000, 500, 1000, 500, 500 >>
         /\ results[c].overall = 700
         /\ results[c].overallConsistency = 0

C3_Witness ==
  \E c \in insts :
    /\ Calculated(c)
    /\ checked[c] = Scenario3
    /\ results[c].overall = 700

\* C4: for every complete answer set the overall score and the overall
\* consistency stored by calculate() lie in [-1, 1]
C4_OverallRange ==
  \A c \in insts : Calculated(c) =>
    /\ -Scale <= results[c].overall /\ results[c].overall <= Scale
    /\ -Scale <= results[c].overallConsistency /\ results[c].overallConsistency <= Scale

C4_Witness ==
  \E c \in insts :
    /\ Calculated(c)
    /\ \A q \in QuestionIds : Answered(c, q) = -2
    /\ results[c].overallConsistency = -Scale
    /\ results[c].overall = 0

\* C5: each dimension's score and each dimension's consistency is an exact
\* multiple of 0.25 lying in [-1, 1]
C5_Quarters ==
  \A c \in insts : Calculated(c) =>
    \A d \in 1..Len(results[c].breakdown) :
      LET b == results[c].breakdown[d]
      IN  /\ b.score % (Scale \div 4) = 0
          /\ b.consistency % (Scale \div 4) = 0
          /\ -Scale <= b.score /\ b.score <= Scale
          /\ -Scale <= b.consistency /\ b.consistency <= Scale

C5_Witness ==
  \E c \in insts :
    /\ Calculated(c)
    /\ results[c].breakdown[1].score = -750
    /\ results[c].breakdown[1].consistency = 250

\* the answers with the two answers of pair d exchanged
SwapPair(vals, d) ==
  [vals EXCEPT ![DIMENSION_PAIRS[d].a] = vals[DIMENSION_PAIRS[d].b],
               ![DIMENSION_PAIRS[d].b] = vals[DIMENSION_PAIRS[d].a]]

\* C6: exchanging the two answers of one dimension pair negates that
\* dimension's score, leaves its consistency unchanged, and leaves every
\* other dimension's score and consistency and the overall consistency
\* unchanged
C6_Swap ==
  \A c \in insts : Calculated(c) =>
    \A d \in Dims :
      LET r == results[c]
          swapped == MakeResults(currentLang[c], SwapPair(CollectVals(c), d))
      IN  /\ swapped.breakdown[d].score = -r.breakdown[d].score
          /\ swapped.breakdown[d].consistency = r.breakdown[d].consistency
          /\ \A e \in Dims \ {d} :
               /\ swapped.breakdown[e].score = r.breakdown[e].score
               /\ swapped.breakdown[e].consistency = r.breakdown[e].consistency
          /\ swapped.overallConsistency = r.overallConsistency

C6_Witness ==
  \E c \in insts :
    /\ Calculated(c)
    /\ Answered(c, "q1") = 2 /\ Answered(c, "q2") = -1
    /\ results[c].breakdown[1].score = 750
    /\ MakeResults(currentLang[c], SwapPair(CollectVals(c), 1)).breakdown[1].score = -750

OverallMessageKeys ==
  {"consistency.veryGood", "consistency.good", "consistency.inconsistent"}

\* C9: getConsistencySummary(overall, list) starts with exactly one of the
\* three overall messages, chosen only by |overall|: 'very good' when
\* |overall| <= 0.1, 'good' when 0.1 < |overall| <= 0.5, the 'inconsistent'
\* warning when |overall| > 0.5
C9_SummaryHead ==
  (ret.returned /\ args.op = "getConsistencySummary") =>
    LET a == Abs(args.overallCons)
        msgs == ret.value
    IN  /\ Len(msgs) >= 1
        /\ {i \in 1..Len(msgs) : msgs[i].key \in OverallMessageKeys} = {1}
        /\ a <= 100 => msgs[1].key = "consistency.veryGood"
        /\ (100 < a /\ a <= 500) => msgs[1].key = "consistency.good"
        /\ a > 500 => msgs[1].key = "consistency.inconsistent"

C9_Witness ==
  /\ ret.returned
  /\ args.op = "getConsistencySummary"
  /\ args.overallCons = -100
  /\ args.consList = << 501 >>
  /\ ret.value[1].key = "consistency.veryGood"

HasReview(msgs) == \E i \in 1..Len(msgs) : msgs[i].key = "consistency.review"

\* one pair is answered (2, 2) and the answers of every other pair sum to zero
OnePairBothAgree(c) ==
  \E d \in Dims :
    /\ Answered(c, DIMENSION_PAIRS[d].a) = 2
    /\ Answered(c, DIMENSION_PAIRS[d].b) = 2
    /\ \A e \in Dims \ {d} :
         Answered(c, DIMENSION_PAIRS[e].a) + Answered(c, DIMENSION_PAIRS[e].b) = 0

\* C10: the consistency summary carries the 'review those answers' flag if
\* and only if at least one dimension consistency has absolute value > 0.5,
\* whichever overall message was chosen; a single pair answered (2, 2) with
\* all other pairs summing to zero yields the overall message 'good'
\* (overall consistency 0.2) together with the review flag
C10_ReviewFlag ==
  \A c \in insts : (Calculated(c) /\ options[c].showConsistency) =>
    /\ HasReview(consistencyText[c]) <=>
         \E d \in Dims : Abs(results[c].breakdown[d].consistency) > 500
    /\ OnePairBothAgree(c) =>
         /\ results[c].overallConsistency = 200
         /\ consistencyText[c] =
              << Text(GetTranslations(currentLang[c]), "consistency.good"),
                 Text(GetTranslations(currentLang[c]), "consistency.review") >>

C10_Witness ==
  \E c \in insts :
    /\ Calculated(c)
    /\ checked[c] = Scenario6b
    /\ OnePairBothAgree(c)
    /\ results[c].overallConsistency = 200
    /\ Len(consistencyText[c]) = 2
    /\ consistencyText[c][1].key = "consistency.good"
    /\ consistencyText[c][2].key = "consistency.review"

(***************************************************************************)
(* Properties of the operations                                            *)
(***************************************************************************)

\* the numeric part of a result
NumericPart(r) ==
  [overall |-> r.overall,
   overallConsistency |-> r.overallConsistency,
   scores |-> StoredScores(r),
   consistencies |-> StoredConsistencies(r),
   responses |-> r.responses]

\* a calculation whose answers are those of the previous calculation of the
\* same calculator yields the numeric values the previous one had
SameAnswersSameNumbers ==
  \A c \in insts :
    (/\ lastDetail[c] # NoResult
     /\ results'[c] # NoResult
     /\ results'[c].responses = lastDetail[c].responses)
    => NumericPart(results'[c]) = NumericPart(lastDetail[c])

\* the stored numeric values are those a calculation of the same answers
\* yields under any language
LanguageFreeNumbers ==
  \A c \in insts : Calculated(c) =>
    \A lang \in LangCodes :
      NumericPart(results[c]) = NumericPart(MakeResults(lang, results[c].responses))

\* C7: the numeric part of a result is a function of the ten answers only:
\* two calculations with the same answers yield identical numeric values
\* whatever the selected language, the display options and the calculator's
\* earlier history
C7_NumericDeterminism == [][SameAnswersSameNumbers]_vars /\ []LanguageFreeNumbers

\* the form holds again the answers of the last calculation, which ran
\* under another language, after a reset
C7_Witness ==
  \E c \in insts :
    /\ lastDetail[c] # NoResult
    /\ results[c] = NoResult
    /\ FirstMissing(c) = 0
    /\ CollectVals(c) = lastDetail[c].responses
    /\ lastDetail[c].breakdown[1].label # GetDimensionLabel(currentLang[c], 1)

\* C13: when calculate() runs with at least one question unanswered, the
\* stored results keep their previous value (null or the last successful
\* result), no shs:calculated event is dispatched, and the form and results
\* views stay as they were
C13_MissingTerminal ==
  [][\A c \in insts :
       (Calculate(c) /\ FirstMissing(c) # 0) =>
         /\ results'[c] = results[c]
         /\ heard'[c] = <<>>
         /\ lastDetail'[c] = lastDetail[c]
         /\ formDisplay'[c] = formDisplay[c]
         /\ resultsDisplay'[c] = resultsDisplay[c]]_vars

\* calculate() has stopped at an unanswered question of a calculator that
\* holds the result of an earlier calculation
C13_Witness ==
  \E c \in insts :
    /\ alertOpen # NoText
    /\ FirstMissing(c) # 0
    /\ results[c] # NoResult
    /\ results[c] = lastDetail[c]
    /\ heard[c] = <<>>

\* C14: whenever getResults() is non-null its responses field has exactly
\* the ten keys q1..q10 and each value is an integer in [-2, 2]
C14_Responses ==
  \A c \in insts : results[c] # NoResult =>
    /\ DOMAIN results[c].responses =
         {"q1", "q2", "q3", "q4", "q5", "q6", "q7", "q8", "q9", "q10"}
    /\ \A q \in DOMAIN results[c].responses : results[c].responses[q] \in -2..2

\* a result just stored, computed from the changed first answer
C14_Witness ==
  \E c \in insts :
    /\ results[c] # NoResult
    /\ results[c].responses["q1"] = -2
    /\ results[c].responses["q10"] = -1
    /\ heard[c] # <<>>

\* C15: every result produced by calculate() has a breakdown of exactly 5
\* entries in the order of the dimension table (q1/q2, q3/q4, q5/q6, q7/q8,
\* q9/q10), whatever the order in which the questions were answered
C15_BreakdownOrder ==
  \A c \in insts : results[c] # NoResult =>
    /\ DOMAIN results[c].breakdown = 1..5
    /\ \A d \in 1..5 :
         /\ results[c].breakdown[d].dimension.a = QUESTIONS[2 * d - 1]
         /\ results[c].breakdown[d].dimension.b = QUESTIONS[2 * d]
         /\ results[c].breakdown[d].label.dim = d
    /\ results[c].breakdown[1].dimension.key = "Factual Accuracy"
    /\ results[c].breakdown[5].dimension.key = "Responsiveness to Guidance"

C15_Witness ==
  \E c \in insts :
    /\ heard[c] # <<>>
    /\ Len(results[c].breakdown) = 5
    /\ results[c].responses["q1"] = -2
    /\ results[c].breakdown[1].score = 0
    /\ results[c].breakdown[5].score = 500

C17_Reset ==
  [][\A c \in insts :
       Reset(c) =>
         /\ DOMAIN responses'[c] = {}
         /\ results'[c] = NoResult
         /\ formDisplay'[c] = "block"
         /\ resultsDisplay'[c] = "none"
         /\ \A q \in QuestionIds : checked'[c][q] = NoSel]_vars

\* reset() has run on a calculator that had calculated and shown a result
C17_Witness ==
  \E c \in insts :
    /\ results[c] = NoResult
    /\ lastDetail[c] # NoResult
    /\ overallScoreText[c] # NoText
    /\ formDisplay[c] = "block"
    /\ resultsDisplay[c] = "none"
    /\ \A q \in QuestionIds : checked[c][q] = NoSel

\* the table label lookups use under language code l
TableOf(l) == IF l \in {"en", "de", "fr"} THEN l ELSE "en"

\* every text shown or alerted comes from the table of the current language
TextsFollowLanguage ==
  \A c \in insts :
    /\ alertOpen # NoText => alertOpen = Text(TableOf(currentLang[c]), "alert")
    /\ overallText[c] # NoText => overallText[c].table = TableOf(currentLang[c])
    /\ \A i \in 1..Len(consistencyText[c]) :
         consistencyText[c][i].table = TableOf(currentLang[c])
    /\ \A d \in 1..Len(breakdownText[c]) :
         /\ breakdownText[c][d].segment.table = TableOf(currentLang[c])
         /\ breakdownText[c][d].consText.table = TableOf(currentLang[c])
         /\ breakdownText[c][d].label.field =
              (CASE currentLang[c] = "de" -> "key_de"
                 [] currentLang[c] = "fr" -> "key_fr"
                 [] OTHER -> "key")

\* C18: after setLanguage(l) the current language is l; label lookups use
\* the table of l when l is en, de or fr and the English table for any other
\* code, and no error is raised
C18_Language ==
  /\ [][\A c \in insts, l \in LangCodes \cup InheritedCodes :
         SetLanguage(c, l) => (currentLang'[c] = l /\ threw' = NoError)]_vars
  /\ [](TextsFollowLanguage /\ threw = NoError)

\* C20: a result obtained earlier through getResults() or an event's detail
\* is never modified afterwards: its overall score, overall consistency,
\* breakdown entries and responses stay the same across any later
\* calculate(), reset(), setLanguage() or back action
C20_Immutable ==
  [][\A c \in insts :
       /\ (held[c] # NoResult /\ ~GetResults(c)) => held'[c] = held[c]
       /\ (lastDetail[c] # NoResult /\ heard'[c] = <<>>) => lastDetail'[c] = lastDetail[c]]_vars

\* the caller keeps a result and a later calculate() has stored another one
C20_Witness ==
  \E c \in insts :
    /\ held[c] # NoResult
    /\ results[c] # NoResult
    /\ held[c].responses # results[c].responses
    /\ heard[c] # <<>>

(***************************************************************************)
(* Properties of the direct calls                                          *)
(***************************************************************************)

SegmentReturned == ret.returned /\ args.op = "getSegmentText"

\* the highest band of the table whose closed interval contains v
HigherBand(segments, v) ==
  CHOOSE i \in 1..Len(segments) :
    /\ segments[i].min <= v /\ v <= segments[i].max
    /\ \A j \in 1..Len(segments) :
         (segments[j].min <= v /\ v <= segments[j].max) => j <= i

\* C11: getSegmentText maps every value in [-1, 1] to exactly one of the 11
\* bands, and a value on the edge shared by two adjacent bands gets the label
\* of the higher of the two
C11_BandEdges ==
  \A c \in insts :
    (SegmentReturned /\ -Scale <= args.value /\ args.value <= Scale) =>
      LET segments == Segments(GetTranslations(currentLang[c]))
      IN  /\ Len(segments) = 11
          /\ Cardinality({i \in 1..Len(segments) : segments[i].label = ret.value}) = 1
          /\ ret.value = segments[HigherBand(segments, args.value)].label

\* C12: getSegmentText returns for any value below -1 the label of -1 (the
\* lowest band, 'Severe'), for any value above 1 the label of 1 (the highest
\* band, 'Excellent'), and for 0 the label of the middle band ('Neutral')
C12_Clamp ==
  \A c \in insts : SegmentReturned =>
    LET t == IF currentLang[c] \in {"en", "de", "fr"} THEN currentLang[c] ELSE "en"
    IN  /\ args.value <= -Scale => ret.value = Text(t, "segments0")
        /\ args.value >= Scale => ret.value = Text(t, "segments10")
        /\ args.value = 0 => ret.value = Text(t, "segments5")

C12_Witness ==
  /\ SegmentReturned
  /\ args.value = -2 * Scale
  /\ ret.value.key = "segments0"

\* the level a consistency message stands for
LevelOf(key) ==
  CASE key \in {"consistency.veryGood", "breakdownConsistency.veryGood"} -> "veryGood"
    [] key \in {"consistency.good", "breakdownConsistency.good"} -> "good"
    [] key \in {"consistency.inconsistent", "breakdownConsistency.noConsistent"} -> "inconsistent"

BandsContaining(segments, v) ==
  {i \in 1..Len(segments) : v >= segments[i].min /\ v <= segments[i].max}

\* the band of the table that carries the label
BandOfLabel(segments, label) ==
  CHOOSE i \in 1..Len(segments) : segments[i].label = label

\* the first band starts at -1, the last ends at 1, each band ends where the
\* next one starts
Contiguous(segments) ==
  /\ segments[1].min = -Scale
  /\ segments[Len(segments)].max = Scale
  /\ \A i \in 1..(Len(segments) - 1) : segments[i].max = segments[i + 1].min

SameBounds(s1, s2) ==
  /\ Len(s1) = Len(s2)
  /\ \A i \in 1..Len(s1) : s1[i].min = s2[i].min /\ s1[i].max = s2[i].max

\* C22: the 11-band table is contiguous and covers [-1, 1] in every language
\* (the first band starts at -1.0, the last ends at 1.0, each band's max is
\* the next band's min, the three tables have the same bounds), so that for
\* a numeric input getSegmentText returns from inside its loop: some band
\* contains the clamped value and the label returned is the first such band's
C22_Contiguous ==
  \A c \in insts : SegmentReturned =>
    LET segments == Segments(GetTranslations(currentLang[c]))
        clamped == MaxOf(-Scale, MinOf(Scale, args.value))
        hits == BandsContaining(segments, clamped)
    IN  /\ \A t \in TranslationTables :
             /\ Len(Segments(t)) = 11
             /\ Contiguous(Segments(t))
             /\ SameBounds(Segments(t), Segments("en"))
        /\ hits # {}
        /\ \E i \in hits : /\ \A j \in hits : i <= j
                           /\ ret.value = segments[i].label

C22_Witness ==
  \E c \in insts :
    /\ SegmentReturned
    /\ currentLang[c] = "de"
    /\ args.value = 818
    /\ ret.value = Text("de", "segments9")

\* C23: every dimension score (a multiple of 0.25 in [-1, 1]) and every
\* overall score (a multiple of 0.05 in [-1, 1]) computed from valid answers
\* passes the membership test of exactly one band, whose label is the one
\* displayed
C23_OffEdges ==
  \A c \in insts : Calculated(c) =>
    LET segments == Segments(GetTranslations(currentLang[c]))
        r == results[c]
    IN  /\ r.overall % 50 = 0
        /\ Cardinality(BandsContaining(segments, r.overall)) = 1
        /\ \A i \in BandsContaining(segments, r.overall) :
             overallText[c] = segments[i].label
        /\ \A d \in Dims :
             /\ r.breakdown[d].score % 250 = 0
             /\ Cardinality(BandsContaining(segments, r.breakdown[d].score)) = 1
             /\ \A i \in BandsContaining(segments, r.breakdown[d].score) :
                  breakdownText[c][d].segment = segments[i].label

C23_Witness ==
  \E c \in insts :
    /\ Calculated(c)
    /\ results[c].overall = 100
    /\ overallText[c].key = "segments6"
    /\ \E d \in Dims : /\ results[c].breakdown[d].score = 500
                       /\ breakdownText[c][d].segment.key = "segments8"

\* C24: for every overall score computed from ten valid answers the segment
\* setGauge highlights has the index of the band whose label getSegmentText
\* returns for that score
C24_GaugeMatchesLabel ==
  \A c \in insts : (Calculated(c) /\ options[c].showGauge) =>
    LET segments == Segments(GetTranslations(currentLang[c]))
    IN  /\ activeSegment[c] \in 0..10
        /\ activeSegment[c] + 1 = BandOfLabel(segments, overallText[c])
        /\ (activeSegment[c] + 1) \in BandsContaining(segments, results[c].overall)

C24_Witness ==
  \E c \in insts :
    /\ Calculated(c)
    /\ options[c].showGauge
    /\ results[c].overall = 850
    /\ activeSegment[c] = 10
    /\ overallText[c].key = "segments10"

\* the dimensions of the result whose consistency is beyond 0.5 in size
Flagged(r) == {d \in 1..Len(r.breakdown) : Abs(r.breakdown[d].consistency) > 500}

\* C25: a result whose overall consistency is beyond 0.5 in size has at
\* least one dimension consistency beyond 0.5 in size, and the summary that
\* carries the inconsistency warning carries the review flag too
C25_WarningHasReview ==
  \A c \in insts : Calculated(c) =>
    /\ Abs(results[c].overallConsistency) > 500 => Flagged(results[c]) # {}
    /\ options[c].showConsistency =>
         ((\E i \in 1..Len(consistencyText[c]) :
              consistencyText[c][i].key = "consistency.inconsistent")
            => HasReview(consistencyText[c]))

C25_Witness ==
  \E c \in insts :
    /\ Calculated(c)
    /\ results[c].overallConsistency = -600
    /\ Cardinality(Flagged(results[c])) = 1
    /\ Len(consistencyText[c]) = 2
    /\ consistencyText[c][1].key = "consistency.inconsistent"
    /\ consistencyText[c][2].key = "consistency.review"

\* C26: for every dimension computed from valid answers |score| +
\* |consistency| <= 1; a dimension whose consistency is beyond 0.5 in size
\* (0.75 or 1) has a score of at most 0.25 in size and is labelled with one
\* of the three middle bands, never with one of the four outermost bands on
\* either side
C26_FlaggedNearZero ==
  \A c \in insts : Calculated(c) =>
    \A d \in Dims :
      LET b == results[c].breakdown[d]
      IN  /\ Abs(b.score) + Abs(b.consistency) <= Scale
          /\ Abs(b.consistency) > 500 =>
               /\ Abs(b.consistency) \in {750, 1000}
               /\ Abs(b.score) <= 250
               /\ breakdownText[c][d].segment.key \in {"segments4", "segments5", "segments6"}

C26_Witness ==
  \E c \in insts, d \in Dims :
    /\ Calculated(c)
    /\ results[c].breakdown[d].consistency = 750
    /\ results[c].breakdown[d].score = -250
    /\ breakdownText[c][d].segment.key = "segments4"

(***************************************************************************)
(* Properties of re-rendering and of the two views                         *)
(***************************************************************************)

\* the handlers one event on the element runs: one per listener attached
HandlerRuns(c, target) == listeners[c][target]

\* C27: after the constructor and any number of setLanguage() calls each of
\* the language selector, the form and the Back button carries exactly one
\* listener, so one submission runs calculate() once, one click on Back runs
\* showForm() once and one click on a language option runs setLanguage() once
C27_NoListenerPileUp ==
  \A c \in insts :
    /\ DOMAIN listeners[c] = {"langRoot", "form", "backBtn"}
    /\ \A target \in DOMAIN listeners[c] : HandlerRuns(c, target) = 1

\* the language was set to German and back to English, a result computed in
\* between
C27_Witness ==
  \E c \in insts :
    /\ currentLang[c] = "en"
    /\ results[c] # NoResult
    /\ results[c].breakdown[1].label.field = "key_de"
    /\ HandlerRuns(c, "form") = 1

NoneSelected(c) == \A q \in QuestionIds : checked[c][q] = NoSel

C29_Views ==
  \A c \in insts :
    /\ resultsDisplay[c] = "block" => results[c] # NoResult
    /\ ~(formDisplay[c] = "block" /\ resultsDisplay[c] = "block")
    /\ resultsDisplay[c] = "block" => formDisplay[c] = "none"
    /\ formDisplay[c] = "block" => resultsDisplay[c] = "none"

\* the results view of a second calculation, shown after Back
C29_Witness ==
  \E c \in insts :
    /\ resultsDisplay[c] = "block"
    /\ formDisplay[c] = "none"
    /\ results[c] # NoResult
    /\ results[c].responses["q1"] = -2

(***************************************************************************)
(* Properties of two calculators on one page                               *)
(***************************************************************************)

\* an operation on calculator c: answering, calculate(), setLanguage(), Back
\* or reset()
OperationOn(c) ==
  \/ \E q \in QuestionIds, v \in RadioValueSet : Answer(c, q, v)
  \/ Calculate(c)
  \/ \E lang \in LangCodes : SetLanguage(c, lang)
  \/ ShowForm(c)
  \/ Reset(c)

\* what the page holds of calculator d
StateOf(d) ==
  << checked[d], currentLang[d], results[d], activeSegment[d], responses[d],
     formDisplay[d], resultsDisplay[d], overallScoreText[d], overallText[d],
     consistencyText[d], breakdownText[d], needle[d], listeners[d], lastDetail[d] >>

\* C21: two calculators on containers with different ids are independent
\* under every interleaving: an operation on one leaves the other's selected
\* answers, language, stored results and highlighted gauge segment (and the
\* rest of its state) unchanged, and a calculate() on one stores that
\* calculator's own answers
C21_Independent ==
  [][\A c \in insts :
       /\ OperationOn(c) => \A d \in insts \ {c} : StateOf(d)' = StateOf(d)
       /\ (Calculate(c) /\ FirstMissing(c) = 0) =>
            \A q \in QuestionIds : results'[c].responses[q] = Answered(c, q)]_vars

\* both calculators hold a result of their own answers in their own
\* language, and the first has since been set to another language
C21_Witness ==
  /\ insts = {"c1", "c2"}
  /\ results["c1"] # NoResult /\ results["c2"] # NoResult
  /\ results["c1"].responses # results["c2"].responses
  /\ results["c1"].breakdown[1].label.field = "key"
  /\ results["c2"].breakdown[1].label.field = "key_de"
  /\ currentLang["c1"] = "de"
  /\ NoneSelected("c1")
  /\ activeSegment["c1"] = NoSegment
  /\ activeSegment["c2"] # NoSegment
  /\ resultsDisplay["c2"] = "block"

(***************************************************************************)
(* The class and the standalone script                                     *)
(***************************************************************************)

\* the class has computed on c1, the script on s1
BothComputed == results["c1"] # NoResult /\ overallScoreText["s1"] # NoText

\* C30: for every complete set of ten answers and every language of en, de,
\* fr the standalone script and the class show the same overall score, the
\* same overall band label, the same consistency summary and the same
\* per-dimension breakdown text (and highlight the same gauge segment), and
\* with a question unanswered both alert the same text and compute nothing
C30_ScriptEquivalent ==
  /\ BothComputed =>
       /\ overallScoreText["s1"] = overallScoreText["c1"]
       /\ overallScoreText["s1"] = FormatValue(results["c1"].overall)
       /\ overallText["s1"] = overallText["c1"]
       /\ consistencyText["s1"] = consistencyText["c1"]
       /\ breakdownText["s1"] = breakdownText["c1"]
       /\ activeSegment["s1"] = activeSegment["c1"]
       /\ resultsDisplay["s1"] = resultsDisplay["c1"]
  /\ (\E q \in QuestionIds : checked["c1"][q] = NoSel) =>
       /\ results["c1"] = NoResult
       /\ overallScoreText["c1"] = NoText /\ overallScoreText["s1"] = NoText
       /\ breakdownText["c1"] = NoText /\ breakdownText["s1"] = NoText
       /\ resultsDisplay["c1"] = NoStyle /\ resultsDisplay["s1"] = NoStyle
  /\ alertOpen # NoText =>
       /\ \E q \in QuestionIds : checked["c1"][q] = NoSel
       /\ alertOpen = Text(currentLang["c1"], "alert")

\* both have computed from a sheet whose overall consistency is 0.1, in
\* French
C30_Witness ==
  /\ BothComputed
  /\ currentLang["s1"] = "fr"
  /\ results["c1"].overallConsistency = 100
  /\ consistencyText["s1"] = << Text("fr", "consistency.veryGood") >>
  /\ breakdownText["s1"][1].label.field = "key_fr"

====
